---- MODULE Spec2Model ----
(***************************************************************************)
(* operator-sugar: the macro_rules! macro `operator!` of src/lib.rs.       *)
(*                                                                         *)
(* An invocation is a sequence of token trees.  The macro tries its arms   *)
(* in the order they are declared; the first arm whose matcher accepts the *)
(* whole sequence is transcribed into one `impl` item, and an invocation   *)
(* that no arm accepts is a compile error.  The model keeps the            *)
(* invocations written so far (src), the items the crate holds after       *)
(* expansion (crate) and the last call of a generated operator (call).     *)
(***************************************************************************)
EXTENDS Integers, Sequences, FiniteSets, TLC

VARIABLES src, crate, status, matched, tried, call

vars == <<src, crate, status, matched, tried, call>>

(***************************************************************************)
(* Token trees.  An atom is a single token; a group is a delimited         *)
(* sequence of token trees.                                                *)
(***************************************************************************)
Tok(s) == [d |-> "atom", s |-> s, ts |-> <<>>]

Group(d, ts) == [d |-> d, s |-> "", ts |-> ts]

Eof == [d |-> "eof", s |-> "", ts |-> <<>>]

At(toks, i) == IF i \in 1..Len(toks) THEN toks[i] ELSE Eof

From(toks, i) == IF i \in 1..Len(toks) THEN SubSeq(toks, i, Len(toks)) ELSE <<>>

Punct == {"+", "-", "*", "/", "%", "&", "|", "^", "<<", ">>", "&&", "||", "==",
          "<", ">", "+=", ",", ":", "->", "#", "=", ";", "."}

IsAtom(t, s) == t.d = "atom" /\ t.s = s

\* $x:ident accepts any single identifier token
IsIdent(t) == t.d = "atom" /\ t.s \notin Punct

(***************************************************************************)
(* $x:ty - the type parser on the token sequence; the number of tokens the *)
(* type takes, 0 when the sequence does not start with a type.  The types  *)
(* covered are paths `T`, `T<U>` and references `&T`.                      *)
(***************************************************************************)
RECURSIVE TyLen(_)
TyLen(toks) ==
    IF toks = <<>> THEN 0
    ELSE IF IsAtom(toks[1], "&")
    THEN LET n == TyLen(Tail(toks)) IN IF n = 0 THEN 0 ELSE n + 1
    ELSE IF IsIdent(toks[1])
    THEN IF IsAtom(At(toks, 2), "<")
         THEN LET n == TyLen(From(toks, 3))
              IN  IF n # 0 /\ IsAtom(At(toks, 3 + n), ">") THEN 3 + n ELSE 0
         ELSE 1
    ELSE 0

\* $x:meta - a path, optionally followed by a delimited token tree
IsMeta(ts) ==
    /\ Len(ts) \in {1, 2}
    /\ IsIdent(ts[1])
    /\ Len(ts) = 2 => ts[2].d = "("

(***************************************************************************)
(* $(#[$attr:meta])* from position i: the position after the last          *)
(* attribute, 0 when a `#` is not followed by `[meta]`.                    *)
(***************************************************************************)
RECURSIVE AttrsEnd(_, _)
AttrsEnd(toks, i) ==
    IF IsAtom(At(toks, i), "#")
    THEN IF At(toks, i + 1).d = "[" /\ IsMeta(At(toks, i + 1).ts)
         THEN AttrsEnd(toks, i + 2)
         ELSE 0
    ELSE i

\* the metas captured between positions i and j
RECURSIVE AttrsOf(_, _, _)
AttrsOf(toks, i, j) ==
    IF i >= j THEN <<>> ELSE <<toks[i + 1].ts>> \o AttrsOf(toks, i + 2, j)

(***************************************************************************)
(* The arms of operator!, in declaration order.  Every arm has the same    *)
(* matcher up to the operator token after $a and, for the index arm, the   *)
(* literal `&` after `->`; every arm has the same transcriber up to the    *)
(* trait, the method name and, for the index arm, the receiver and the     *)
(* return type.                                                            *)
(***************************************************************************)
Arm(tok, trait, method, index) ==
    [tok |-> tok, trait |-> trait, method |-> method, index |-> index]

RulesDuplicateToken ==
    << Arm("+", "Add", "add", FALSE),
       Arm("+", "Sub", "sub", FALSE),
       Arm("*", "Mul", "mul", FALSE),
       Arm("/", "Div", "div", FALSE),
       Arm("%", "Rem", "rem", FALSE),
       Arm("&", "BitAnd", "bitand", FALSE),
       Arm("|", "BitOr", "bitor", FALSE),
       Arm("^", "BitXor", "bitxor", FALSE),
       Arm("<<", "Shl", "shl", FALSE),
       Arm(">>", "Shr", "shr", FALSE),
       Arm("[]", "Index", "index", TRUE) >>

RulesExtraArm ==
    << Arm("+", "Add", "add", FALSE),
       Arm("-", "Sub", "sub", FALSE),
       Arm("*", "Mul", "mul", FALSE),
       Arm("/", "Div", "div", FALSE),
       Arm("%", "Rem", "rem", FALSE),
       Arm("&", "BitAnd", "bitand", FALSE),
       Arm("|", "BitOr", "bitor", FALSE),
       Arm("^", "BitXor", "bitxor", FALSE),
       Arm("<<", "Shl", "shl", FALSE),
       Arm(">>", "Shr", "shr", FALSE),
       Arm("[]", "Index", "index", TRUE),
       Arm("==", "PartialEq", "eq", FALSE) >>

RulesSwappedShift ==
    << Arm("+", "Add", "add", FALSE),
       Arm("-", "Sub", "sub", FALSE),
       Arm("*", "Mul", "mul", FALSE),
       Arm("/", "Div", "div", FALSE),
       Arm("%", "Rem", "rem", FALSE),
       Arm("&", "BitAnd", "bitand", FALSE),
       Arm("|", "BitOr", "bitor", FALSE),
       Arm("^", "BitXor", "bitxor", FALSE),
       Arm("<<", "Shr", "shr", FALSE),
       Arm(">>", "Shl", "shl", FALSE),
       Arm("[]", "Index", "index", TRUE) >>

RulesMissingArm ==
    << Arm("+", "Add", "add", FALSE),
       Arm("-", "Sub", "sub", FALSE),
       Arm("*", "Mul", "mul", FALSE),
       Arm("/", "Div", "div", FALSE),
       Arm("%", "Rem", "rem", FALSE),
       Arm("&", "BitAnd", "bitand", FALSE),
       Arm("|", "BitOr", "bitor", FALSE),
       Arm("<<", "Shl", "shl", FALSE),
       Arm(">>", "Shr", "shr", FALSE),
       Arm("[]", "Index", "index", TRUE) >>

RulesSameTrait ==
    << Arm("+", "Add", "add", FALSE),
       Arm("-", "Add", "add", FALSE),
       Arm("*", "Mul", "mul", FALSE),
       Arm("/", "Div", "div", FALSE),
       Arm("%", "Rem", "rem", FALSE),
       Arm("&", "BitAnd", "bitand", FALSE),
       Arm("|", "BitOr", "bitor", FALSE),
       Arm("^", "BitXor", "bitxor", FALSE),
       Arm("<<", "Shl", "shl", FALSE),
       Arm(">>", "Shr", "shr", FALSE),
       Arm("[]", "Index", "index", TRUE) >>

Rules ==
    << Arm("+", "Add", "add", FALSE),
       Arm("-", "Sub", "sub", FALSE),
       Arm("*", "Mul", "mul", FALSE),
       Arm("/", "Div", "div", FALSE),
       Arm("%", "Rem", "rem", FALSE),
       Arm("&", "BitAnd", "bitand", FALSE),
       Arm("|", "BitOr", "bitor", FALSE),
       Arm("^", "BitXor", "bitxor", FALSE),
       Arm("<<", "Shl", "shl", FALSE),
       Arm(">>", "Shr", "shr", FALSE),
       Arm("[]", "Index", "index", TRUE) >>

NoMatch ==
    [ok |-> FALSE, implAttrs |-> <<>>, generics |-> [present |-> FALSE, ts |-> <<>>],
     A |-> <<>>, B |-> <<>>, fnAttrs |-> <<>>, a |-> "", b |-> "", C |-> <<>>,
     body |-> <<>>]

(***************************************************************************)
(* The part of an arm's matcher between the function attributes and `->`:  *)
(* `$a:ident TOK $b:ident`, or `$a:ident[$b:ident]` for the index arm.     *)
(* p is the position of $a.                                                *)
(***************************************************************************)
OperandsMatch(rule, toks, p) ==
    /\ IsIdent(At(toks, p))
    /\ IF rule.index
       THEN /\ At(toks, p + 1).d = "["
            /\ Len(At(toks, p + 1).ts) = 1
            /\ IsIdent(At(toks, p + 1).ts[1])
       ELSE /\ IsAtom(At(toks, p + 1), rule.tok)
            /\ IsIdent(At(toks, p + 2))

\* the position of `->` when the operands start at p
ArrowPos(rule, p) == IF rule.index THEN p + 2 ELSE p + 3

\* the index arm takes no `&`: `-> $C:ty` as in the other arms
ResultPosNoAmp(rule, toks, q) == q + 1

(***************************************************************************)
(* The position of $C when `->` is at q: the index arm requires the        *)
(* literal `&` between them; 0 when it is missing.                         *)
(***************************************************************************)
ResultPos(rule, toks, q) ==
    IF rule.index
    THEN IF IsAtom(At(toks, q + 1), "&") THEN q + 2 ELSE 0
    ELSE q + 1

(***************************************************************************)
(* One arm's matcher on a whole invocation: the captures, or NoMatch.      *)
(***************************************************************************)
MatchRule(rule, toks) ==
    LET p1   == AttrsEnd(toks, 1)
        hasG == At(toks, p1).d = "{"
        p2   == IF hasG THEN p1 + 1 ELSE p1
        nA   == TyLen(From(toks, p2))
        p3   == p2 + nA
        nB   == TyLen(From(toks, p3 + 1))
        p4   == p3 + 1 + nB
        p5   == AttrsEnd(toks, p4 + 1)
        p6   == ArrowPos(rule, p5)
        p7   == ResultPos(rule, toks, p6)
        nC   == TyLen(From(toks, p7))
        p8   == p7 + nC
    IN  IF /\ p1 # 0
           /\ nA # 0
           /\ IsAtom(At(toks, p3), ",")
           /\ nB # 0
           /\ IsAtom(At(toks, p4), ":")
           /\ p5 # 0
           /\ OperandsMatch(rule, toks, p5)
           /\ IsAtom(At(toks, p6), "->")
           /\ p7 # 0
           /\ nC # 0
           /\ At(toks, p8).d = "{"
           /\ p8 = Len(toks)
        THEN [ok        |-> TRUE,
              implAttrs |-> AttrsOf(toks, 1, p1),
              generics  |-> [present |-> hasG,
                             ts |-> IF hasG THEN toks[p1].ts ELSE <<>>],
              A         |-> SubSeq(toks, p2, p3 - 1),
              B         |-> SubSeq(toks, p3 + 1, p4 - 1),
              fnAttrs   |-> AttrsOf(toks, p4 + 1, p5),
              a         |-> toks[p5].s,
              b         |-> IF rule.index THEN toks[p5 + 1].ts[1].s
                            ELSE toks[p5 + 2].s,
              C         |-> SubSeq(toks, p7, p8 - 1),
              body      |-> toks[p8].ts]
        ELSE NoMatch

\* the arms that accept the invocation
Matching(toks) == {r \in 1..Len(Rules) : MatchRule(Rules[r], toks).ok}

\* the arms are tried in order from arm r: the first that accepts, 0 when none does
RECURSIVE FirstFrom(_, _)
FirstFrom(toks, r) ==
    IF r > Len(Rules) THEN 0
    ELSE IF MatchRule(Rules[r], toks).ok THEN r
    ELSE FirstFrom(toks, r + 1)

FirstMatch(toks) == FirstFrom(toks, 1)

(***************************************************************************)
(* The generated method of an arm: `fn NAME(self, $b: $B) -> Self::Output` *)
(* with the body `let $a = self; $($body)*`; the index arm takes `&self`   *)
(* and returns `&Self::Output`.                                            *)
(***************************************************************************)
MethodAttrsDropped(rule, m) ==
    [attrs   |-> <<>>,
     name    |-> rule.method,
     recv    |-> IF rule.index THEN "&self" ELSE "self",
     param   |-> m.b,
     paramTy |-> m.B,
     retRef  |-> rule.index,
     lets    |-> << [name |-> m.a, init |-> "self"] >>,
     body    |-> m.body]

MethodBindsSwapped(rule, m) ==
    [attrs   |-> m.fnAttrs,
     name    |-> rule.method,
     recv    |-> IF rule.index THEN "&self" ELSE "self",
     param   |-> m.a,
     paramTy |-> m.B,
     retRef  |-> rule.index,
     lets    |-> << [name |-> m.b, init |-> "self"] >>,
     body    |-> m.body]

MethodOf(rule, m) ==
    [attrs   |-> m.fnAttrs,
     name    |-> rule.method,
     recv    |-> IF rule.index THEN "&self" ELSE "self",
     param   |-> m.b,
     paramTy |-> m.B,
     retRef  |-> rule.index,
     lets    |-> << [name |-> m.a, init |-> "self"] >>,
     body    |-> m.body]

TranscribeKeepsAmp(rule, m) ==
    [implAttrs |-> m.implAttrs,
     generics  |-> m.generics,
     trait     |-> rule.trait,
     traitArg  |-> m.B,
     selfTy    |-> m.A,
     output    |-> IF rule.index THEN <<Tok("&")>> \o m.C ELSE m.C,
     methods   |-> << MethodOf(rule, m) >>]

TranscribeNoGenerics(rule, m) ==
    [implAttrs |-> m.implAttrs,
     generics  |-> [present |-> FALSE, ts |-> <<>>],
     trait     |-> rule.trait,
     traitArg  |-> m.B,
     selfTy    |-> m.A,
     output    |-> m.C,
     methods   |-> << MethodOf(rule, m) >>]

(***************************************************************************)
(* An arm's transcriber: `$(#[$impl_attr])* impl $(<$($generics)*>)?       *)
(* ::core::ops::TRAIT<$B> for $A { type Output = $C; METHOD }`.            *)
(***************************************************************************)
Transcribe(rule, m) ==
    [implAttrs |-> m.implAttrs,
     generics  |-> m.generics,
     trait     |-> rule.trait,
     traitArg  |-> m.B,
     selfTy    |-> m.A,
     output    |-> m.C,
     methods   |-> << MethodOf(rule, m) >>]

(***************************************************************************)
(* An invocation as its author writes it, and the token trees it is:       *)
(*   $(#[impl_attr])* $({generics})? A, B : $(#[fn_attr])* a OP b -> C {}  *)
(* op is the operator token, "[]" for `a[b]` and "()" for `a(b)`; amp says *)
(* that a `&` is written before the result type; shape names a piece left  *)
(* out of an otherwise well-formed invocation.                             *)
(***************************************************************************)
AttrToks(metas) ==
    IF metas = <<>> THEN <<>>
    ELSE LET F[i \in 0..Len(metas)] ==
                 IF i = 0 THEN <<>>
                 ELSE F[i - 1] \o <<Tok("#"), Group("[", metas[i])>>
         IN  F[Len(metas)]

OperandToks(inv) ==
    CASE inv.op = "[]" -> <<Tok(inv.a), Group("[", <<Tok(inv.b)>>)>>
      [] inv.op = "()" -> <<Tok(inv.a), Group("(", <<Tok(inv.b)>>)>>
      [] OTHER         -> <<Tok(inv.a), Tok(inv.op), Tok(inv.b)>>

Invocation(inv) ==
    AttrToks(inv.implAttrs)
    \o (IF ~inv.generics.present THEN <<>>
        ELSE IF inv.shape = "angleGenerics"
             THEN <<Tok("<")>> \o inv.generics.ts \o <<Tok(">")>>
             ELSE <<Group("{", inv.generics.ts)>>)
    \o inv.A
    \o (IF inv.shape = "noComma" THEN <<>> ELSE <<Tok(",")>>)
    \o inv.B
    \o (IF inv.shape = "noColon" THEN <<>> ELSE <<Tok(":")>>)
    \o AttrToks(inv.fnAttrs)
    \o OperandToks(inv)
    \o (IF inv.shape = "noArrow" THEN <<>> ELSE <<Tok("->")>>)
    \o (IF inv.amp THEN <<Tok("&")>> ELSE <<>>)
    \o (IF inv.shape = "noResult" THEN <<>> ELSE inv.C)
    \o (IF inv.shape = "noBody" THEN <<>> ELSE <<Group("{", inv.body)>>)

(***************************************************************************)
(* The expansion of one invocation: the arms are tried in order on its     *)
(* tokens.  The first that accepts is transcribed into one item; when none *)
(* accepts there is no output at all.                                      *)
(***************************************************************************)
Expansion(toks) ==
    LET r == FirstMatch(toks)
    IN  IF r # 0
        THEN [matched |-> r, tried |-> r,
              items |-> << Transcribe(Rules[r], MatchRule(Rules[r], toks)) >>]
        ELSE [matched |-> 0, tried |-> Len(Rules), items |-> <<>>]

(***************************************************************************)
(* operator!(inv) in a compilation unit: the items of the expansion join   *)
(* the crate; an invocation that no arm accepts fails the compilation.     *)
(***************************************************************************)
OperatorMacro(inv) ==
    \E e \in {Expansion(Invocation(inv))} :
        /\ status # "error"
        /\ src' = Append(src, inv)
        /\ matched' = e.matched
        /\ tried' = e.tried
        /\ crate' = crate \o e.items
        /\ status' = IF e.matched # 0 THEN "ok" ELSE "error"
        /\ UNCHANGED call

(***************************************************************************)
(* Run time.  The operand structs of the documentation's examples wrap an  *)
(* i32, a usize or a Vec<i32>; a value is an integer, a vector, a panic,   *)
(* or an error for a body that does not compile.                           *)
(***************************************************************************)
IntV(n) == [t |-> "int", n |-> n, v |-> <<>>]

VecV(v) == [t |-> "vec", n |-> 0, v |-> v]

Panic == [t |-> "panic", n |-> 0, v |-> <<>>]

Err == [t |-> "error", n |-> 0, v |-> <<>>]

RECURSIVE Pow2(_)
Pow2(n) == IF n = 0 THEN 1 ELSE 2 * Pow2(n - 1)

RECURSIVE Bitwise(_, _, _)
Bitwise(op, x, y) ==
    IF x = 0 /\ y = 0 THEN 0
    ELSE LET bx == x % 2
             by == y % 2
             bit == CASE op = "&" -> bx * by
                      [] op = "|" -> IF bx + by >= 1 THEN 1 ELSE 0
                      [] op = "^" -> (bx + by) % 2
         IN  bit + 2 * Bitwise(op, x \div 2, y \div 2)

\* the width of the i32 the documentation's structs wrap
IntBits == 32

BinOps == {"+", "-", "*", "/", "%", "&", "|", "^", "<<", ">>"}

\* Rust's operators on two non-negative i32 values
Arith(op, x, y) ==
    CASE op = "+"  -> IntV(x + y)
      [] op = "-"  -> IntV(x - y)
      [] op = "*"  -> IntV(x * y)
      [] op = "/"  -> IF y = 0 THEN Panic ELSE IntV(x \div y)
      [] op = "%"  -> IF y = 0 THEN Panic ELSE IntV(x % y)
      [] op = "<<" -> IF y >= IntBits THEN Panic ELSE IntV(x * Pow2(y))
      [] op = ">>" -> IF y >= IntBits THEN Panic ELSE IntV(x \div Pow2(y))
      [] OTHER     -> IntV(Bitwise(op, x, y))

Lookup(x, env) == IF x \in DOMAIN env THEN env[x] ELSE Err

(***************************************************************************)
(* The value of a body in a scope.  The bodies are those of the            *)
(* documentation with the field accesses left out: `x`, `x OP y` and       *)
(* `&x[y]`.                                                                *)
(***************************************************************************)
Eval(body, env) ==
    IF Len(body) = 1 /\ IsIdent(body[1])
    THEN Lookup(body[1].s, env)
    ELSE IF Len(body) = 3 /\ IsIdent(body[1]) /\ body[2].d = "atom"
            /\ body[2].s \in BinOps /\ IsIdent(body[3])
    THEN LET x == Lookup(body[1].s, env)
             y == Lookup(body[3].s, env)
         IN  IF x.t = "int" /\ y.t = "int" THEN Arith(body[2].s, x.n, y.n) ELSE Err
    ELSE IF Len(body) = 3 /\ IsAtom(body[1], "&") /\ IsIdent(body[2])
            /\ body[3].d = "[" /\ Len(body[3].ts) = 1 /\ IsIdent(body[3].ts[1])
    THEN LET x == Lookup(body[2].s, env)
             y == Lookup(body[3].ts[1].s, env)
         IN  IF x.t = "vec" /\ y.t = "int"
             THEN IF y.n + 1 \in 1..Len(x.v) THEN IntV(x.v[y.n + 1]) ELSE Panic
             ELSE Err
    ELSE Err

(***************************************************************************)
(* The scope of the body of a generated method: the parameter `$b` holds   *)
(* the argument, then `let $a = self;` binds `$a`, shadowing the parameter *)
(* when both have the same name.                                           *)
(***************************************************************************)
MethodScope(m, self, arg) ==
    (m.lets[1].name :> self) @@ (m.param :> arg)

NoCall ==
    [item |-> 0, l |-> Err, r |-> Err, seenLet |-> Err, seenParam |-> Err,
     result |-> Err]

(***************************************************************************)
(* `l OP r` (or `l[r]`) on the i-th item of the crate: the generated       *)
(* method runs with self = l and the parameter = r and returns the value   *)
(* of the body.  Only a crate that compiles runs.                          *)
(***************************************************************************)
CallOperator(i, l, r) ==
    LET m   == crate[i].methods[1]
        env == MethodScope(m, l, r)
        res == Eval(m.body, env)
    IN  /\ status = "ok"
        /\ i \in 1..Len(crate)
        /\ l.t = (IF crate[i].trait = "Index" THEN "vec" ELSE "int")
        /\ r.t = "int"
        /\ res.t # "error"
        /\ call' = [item |-> i, l |-> l, r |-> r,
                    seenLet |-> Lookup(m.lets[1].name, env),
                    seenParam |-> Lookup(m.param, env),
                    result |-> res]
        /\ UNCHANGED <<src, crate, status, matched, tried>>

(***************************************************************************)
(* Bounded inputs.                                                         *)
(***************************************************************************)
MaxAttrs == 2

MaxItems == 2

Metas == { <<Tok("inline")>>, <<Tok("doc"), Group("(", <<Tok("lit")>>)>> }

OneMeta == <<Tok("inline")>>

AttrLists == UNION { [1..n -> Metas] : n \in 0..MaxAttrs }

NoGenerics == [present |-> FALSE, ts |-> <<>>]

GenericsClauses ==
    { NoGenerics,
      [present |-> TRUE, ts |-> <<>>],
      [present |-> TRUE, ts |-> <<Tok("T"), Tok(":"), Tok("Copy")>>] }

LeftTypes == { <<Tok("Left")>>, <<Tok("Left"), Tok("<"), Tok("T"), Tok(">")>> }

RightTypes == { <<Tok("Right")>>, <<Tok("i32")>> }

ResultTypes == { <<Tok("Answer")>>, <<Tok("i32")>> }

Supported == {"+", "-", "*", "/", "%", "&", "|", "^", "<<", ">>", "[]"}

Unsupported == {"&&", "==", "()"}

Shapes == {"noComma", "noColon", "noArrow", "noResult", "noBody", "angleGenerics"}

Names == {"a", "b"}

DocBody(a, op, b) ==
    IF op = "[]" THEN <<Tok("&"), Tok(a), Group("[", <<Tok(b)>>)>>
    ELSE IF op \in BinOps THEN <<Tok(a), Tok(op), Tok(b)>>
    ELSE <<Tok(a)>>

Inv(ia, g, A, B, fa, a, op, b, amp, C, body, shape) ==
    [implAttrs |-> ia, generics |-> g, A |-> A, B |-> B, fnAttrs |-> fa,
     a |-> a, op |-> op, b |-> b, amp |-> amp, C |-> C, body |-> body,
     shape |-> shape]

\* every combination of attributes, generics clause and operator
Decorated ==
    { Inv(ia, g, <<Tok("Left")>>, <<Tok("Right")>>, fa, "a", op, "b", op = "[]",
          <<Tok("Answer")>>, DocBody("a", op, "b"), "ok") :
        ia \in AttrLists, g \in GenericsClauses, fa \in AttrLists,
        op \in Supported \cup Unsupported }

\* every combination of generics clause, types, operator and `&`
Typed ==
    { Inv(ia, g, A, B, fa, "a", op, "b", amp, C, DocBody("a", op, "b"), "ok") :
        ia \in {<<>>, <<OneMeta>>}, g \in GenericsClauses, A \in LeftTypes,
        B \in RightTypes, fa \in {<<>>, <<OneMeta>>},
        op \in Supported \cup Unsupported, amp \in BOOLEAN, C \in ResultTypes }

WellShaped == Decorated \cup Typed

\* an invocation of a supported operator with one piece left out
Malformed ==
    { Inv(<<>>, g, <<Tok("Left")>>, <<Tok("Right")>>, <<>>, "a", op, "b",
          op = "[]", <<Tok("Answer")>>, DocBody("a", op, "b"), shape) :
        g \in GenericsClauses \ {NoGenerics}, op \in Supported, shape \in Shapes }

Invocations == WellShaped \cup Malformed

\* the invocations of a compilation unit with several operators
UnitInvocations ==
    { Inv(<<>>, NoGenerics, A, B, <<>>, "a", op, "b", op = "[]", <<Tok("Answer")>>,
          DocBody("a", op, "b"), "ok") :
        A \in LeftTypes, B \in {<<Tok("Right")>>}, op \in Supported \cup {"=="} }

\* the bodies called: `x`, and `x OP y` or `&x[y]` for the operator defined
Bodies(op) == { DocBody(x, o, y) : x \in Names, y \in Names, o \in {op, "id"} }

\* the invocations whose operators are called
CallInvocations ==
    UNION { { Inv(<<>>, NoGenerics, <<Tok("Left")>>, <<Tok("Right")>>, <<>>, a, op, b,
                  op = "[]", <<Tok("Answer")>>, body, "ok") :
                a \in Names, b \in Names, body \in Bodies(op) } :
            op \in Supported }

LeftInts == {0, 1, 3, 5, 8, 9, 43}

RightInts == {0, 1, 2, 3, 5, 6}

Vecs == { <<5, 6, 7>>, <<>> }

LeftValues == { IntV(n) : n \in LeftInts } \cup { VecV(v) : v \in Vecs }

RightValues == { IntV(n) : n \in RightInts }

Init ==
    /\ src = <<>>
    /\ crate = <<>>
    /\ status = "ok"
    /\ matched = 0
    /\ tried = 0
    /\ call = NoCall

\* one invocation, of any form
Expand == src = <<>> /\ \E inv \in Invocations : OperatorMacro(inv)

Next == Expand

Spec == Init /\ [][Next]_vars

\* a compilation unit of up to MaxItems invocations
ExpandUnit == Len(src) < MaxItems /\ \E inv \in UnitInvocations : OperatorMacro(inv)

NextUnit == ExpandUnit

SpecUnit == Init /\ [][NextUnit]_vars

\* one invocation, then uses of the operator it defines
ExpandOne == src = <<>> /\ \E inv \in CallInvocations : OperatorMacro(inv)

Apply == \E l \in LeftValues, r \in RightValues : CallOperator(1, l, r)

NextCall == ExpandOne \/ Apply

SpecCall == Init /\ [][NextCall]_vars

(***************************************************************************)
(* Properties.  src[i] is the i-th invocation as written and crate[i] the  *)
(* item it expanded to; after a failed expansion src has one more entry    *)
(* than crate.                                                             *)
(***************************************************************************)
LastInv == src[Len(src)]

ExpectedTrait(op) ==
    CASE op = "+"  -> "Add"
      [] op = "-"  -> "Sub"
      [] op = "*"  -> "Mul"
      [] op = "/"  -> "Div"
      [] op = "%"  -> "Rem"
      [] op = "&"  -> "BitAnd"
      [] op = "|"  -> "BitOr"
      [] op = "^"  -> "BitXor"
      [] op = "<<" -> "Shl"
      [] op = ">>" -> "Shr"
      [] op = "[]" -> "Index"
      [] OTHER     -> "none"

ExpectedMethod(op) ==
    CASE op = "+"  -> "add"
      [] op = "-"  -> "sub"
      [] op = "*"  -> "mul"
      [] op = "/"  -> "div"
      [] op = "%"  -> "rem"
      [] op = "&"  -> "bitand"
      [] op = "|"  -> "bitor"
      [] op = "^"  -> "bitxor"
      [] op = "<<" -> "shl"
      [] op = ">>" -> "shr"
      [] op = "[]" -> "index"
      [] OTHER     -> "none"

\* the result type as written after `->`, the `&` included
WrittenResult(inv) == (IF inv.amp THEN <<Tok("&")>> ELSE <<>>) \o inv.C

\* C1: in every item of the crate the trait and the name of the method are
\* those the fixed mapping gives for the operator token of its invocation,
\* whatever the other parts of the invocation are; the trait's parameter is
\* the right operand type, the implementing type is the left operand type,
\* and the item has exactly one method.
C1_TokenDeterminesTraitAndMethod ==
    \A i \in 1..Len(crate) :
        /\ crate[i].trait = ExpectedTrait(src[i].op)
        /\ Len(crate[i].methods) = 1
        /\ crate[i].methods[1].name = ExpectedMethod(src[i].op)
        /\ crate[i].traitArg = src[i].B
        /\ crate[i].selfTy = src[i].A

C1_Witness ==
    /\ Len(crate) = 1
    /\ src[1].op = "<<"
    /\ src[1].A = <<Tok("Left"), Tok("<"), Tok("T"), Tok(">")>>
    /\ src[1].B = <<Tok("i32")>>
    /\ src[1].generics.present
    /\ src[1].amp
    /\ crate[1].trait = "Shl"
    /\ crate[1].methods[1].name = "shl"

\* the scope the claim describes: the left name holds l, the right name r
ClaimedScope(inv, l, r) == [x \in {inv.a, inv.b} |-> IF x = inv.a THEN l ELSE r]

\* the examples of the documentation: operator, left, right, result
DocTests ==
    { <<"+", 1, 2, 3>>, <<"-", 1, 2, -1>>, <<"*", 3, 2, 6>>, <<"/", 8, 2, 4>>,
      <<"%", 9, 5, 4>>, <<"&", 5, 6, 4>>, <<"|", 5, 6, 7>>, <<"^", 5, 6, 3>>,
      <<"<<", 5, 3, 40>>, <<">>", 43, 3, 5>> }

DocTestsHold(inv) ==
    /\ \A t \in DocTests :
          /\ inv.op = t[1]
          /\ inv.body = DocBody(inv.a, inv.op, inv.b)
          /\ call.l = IntV(t[2])
          /\ call.r = IntV(t[3])
          => call.result = IntV(t[4])
    /\ /\ inv.op = "[]"
       /\ inv.body = DocBody(inv.a, inv.op, inv.b)
       /\ call.l = VecV(<<5, 6, 7>>)
       /\ call.r = IntV(1)
       => call.result = IntV(6)

\* what C2 says of a call of the operator that invocation inv defines
BodySeesOperands(inv) ==
    LET m == crate[call.item].methods[1]
    IN  /\ m.lets[1].name = inv.a
        /\ m.param = inv.b
        /\ call.seenLet = call.l
        /\ call.seenParam = call.r
        /\ call.result = Eval(inv.body, ClaimedScope(inv, call.l, call.r))
        /\ DocTestsHold(inv)

\* C2 as stated: for every choice of the two binding names, a call of the
\* generated operator on l and r evaluates the body with the left name bound
\* to l and the right name bound to r and returns the body's value.
C2_AnyNames ==
    call.item # 0 => BodySeesOperands(src[call.item])

\* C2 amended: for every choice of two different binding names, a call of
\* the generated operator on l and r evaluates the body with the left name
\* bound to l and the right name bound to r and returns the body's value, as
\* in the examples of the documentation; when both names are the same
\* identifier, that identifier is bound to l.
C2_DistinctNames ==
    call.item # 0 =>
        LET inv == src[call.item]
        IN  IF inv.a # inv.b
            THEN BodySeesOperands(inv)
            ELSE /\ call.seenLet = call.l
                 /\ call.seenParam = call.l
                 /\ call.result = Eval(inv.body, (inv.a :> call.l))

C2_Witness ==
    /\ call.item = 1
    /\ src[1].a = "b"
    /\ src[1].b = "a"
    /\ src[1].op = ">>"
    /\ src[1].body = DocBody("b", ">>", "a")
    /\ call.l = IntV(43)
    /\ call.r = IntV(3)
    /\ call.result = IntV(5)

\* C3: an invocation whose operator position holds a token outside the
\* supported set is accepted by no arm: the expansion fails and the crate
\* gets no item from it.
C3_UnsupportedTokenRejected ==
    (Len(src) > 0 /\ LastInv.op \notin Supported) =>
        /\ Matching(Invocation(LastInv)) = {}
        /\ matched = 0
        /\ status = "error"
        /\ Len(crate) = Len(src) - 1

C3_Witness ==
    /\ Len(src) = 1
    /\ src[1].op = "&&"
    /\ src[1].implAttrs # <<>>
    /\ status = "error"
    /\ crate = <<>>

\* C4: in an otherwise well-formed invocation, the indexing form is accepted
\* with the `&` before the result type and by no arm without it; every other
\* supported operator is accepted without a `&` before its result type.
C4_AmpRequiredIffIndex ==
    (Len(src) > 0 /\ LastInv.shape = "ok" /\ LastInv.op \in Supported) =>
        /\ (LastInv.op = "[]" /\ ~LastInv.amp) =>
               (matched = 0 /\ Matching(Invocation(LastInv)) = {})
        /\ (LastInv.op = "[]" /\ LastInv.amp) => matched # 0
        /\ (LastInv.op # "[]" /\ ~LastInv.amp) => matched # 0

C4_Witness ==
    /\ Len(src) = 1
    /\ src[1].op = "[]"
    /\ ~src[1].amp
    /\ src[1].shape = "ok"
    /\ src[1].C = <<Tok("i32")>>
    /\ status = "error"

\* C5: the Output type of an item is the result type as written, without
\* its leading `&` in the indexing case only; the method takes self by value
\* and returns Output by value for every operator but indexing, and takes
\* &self and returns &Output for indexing; the right operand is a parameter
\* of the right operand type, taken by value, in every case.
C5_OutputAndReceiver ==
    \A i \in 1..Len(crate) :
        LET inv == src[i]
            m   == crate[i].methods[1]
        IN  /\ m.param = inv.b
            /\ m.paramTy = inv.B
            /\ IF inv.op = "[]"
               THEN /\ <<Tok("&")>> \o crate[i].output = WrittenResult(inv)
                    /\ m.recv = "&self"
                    /\ m.retRef
               ELSE /\ crate[i].output = WrittenResult(inv)
                    /\ m.recv = "self"
                    /\ ~m.retRef

C5_Witness ==
    /\ Len(crate) = 1
    /\ src[1].op = "[]"
    /\ src[1].C = <<Tok("i32")>>
    /\ crate[1].output = <<Tok("i32")>>
    /\ crate[1].methods[1].recv = "&self"

\* C6: for every operator the impl block of the item carries the
\* implementation-level annotations of the invocation, each once and in the
\* order written, and the method carries the function-level annotations,
\* each once and in the order written; neither list appears at the other
\* place.
C6_AttributePlacement ==
    \A i \in 1..Len(crate) :
        /\ crate[i].implAttrs = src[i].implAttrs
        /\ crate[i].methods[1].attrs = src[i].fnAttrs

C6_Witness ==
    /\ Len(crate) = 1
    /\ src[1].op = "[]"
    /\ Len(src[1].implAttrs) = 2
    /\ src[1].implAttrs[1] # src[1].implAttrs[2]
    /\ Len(src[1].fnAttrs) = 1
    /\ src[1].fnAttrs[1] = src[1].implAttrs[2]
    /\ crate[1].methods[1].attrs = src[1].fnAttrs

\* C7: for every operator, the impl of the item has a generics list exactly
\* when the invocation has a brace-delimited generics clause, and the list
\* holds the tokens of the clause in the same order.
C7_GenericsReemitted ==
    \A i \in 1..Len(crate) :
        /\ crate[i].generics.present = src[i].generics.present
        /\ crate[i].generics.ts = src[i].generics.ts

C7_Witness ==
    /\ Len(crate) = 1
    /\ src[1].op = "|"
    /\ src[1].generics.present
    /\ crate[1].generics.ts = <<Tok("T"), Tok(":"), Tok("Copy")>>

\* the crate holds one item for every invocation, the one the invocation
\* expands to on its own, and two invocations of different operators for the
\* same pair of types implement different traits
UnitIndependent ==
    status = "ok" =>
        /\ Len(crate) = Len(src)
        /\ \A i \in 1..Len(src) : <<crate[i]>> = Expansion(Invocation(src[i])).items
        /\ \A i, j \in 1..Len(src) :
              /\ src[i].op # src[j].op
              /\ src[i].A = src[j].A
              /\ src[i].B = src[j].B
              => /\ crate[i].trait # crate[j].trait
                 /\ crate[i].selfTy = crate[j].selfTy
                 /\ crate[i].traitArg = crate[j].traitArg

\* expanding one more invocation leaves the items of the earlier ones as they are
EarlierItemsKept ==
    /\ Len(crate') >= Len(crate)
    /\ SubSeq(crate', 1, Len(crate)) = crate

\* C8: a sequence of invocations of pairwise different operators for the
\* same pair of types gives one trait implementation per invocation, each of
\* a different trait, and expanding one invocation leaves the expansions of
\* the others unchanged.
C8_InvocationsIndependent == [](UnitIndependent) /\ [][EarlierItemsKept]_vars

C8_Witness ==
    /\ Len(crate) = 2
    /\ src[1].op = "-"
    /\ src[2].op = "+"
    /\ src[1].A = src[2].A
    /\ src[1].B = src[2].B
    /\ crate[1].trait = "Sub"
    /\ crate[2].trait = "Add"

\* C9: no invocation, well formed or not, is accepted by more than one arm;
\* the arm that expands it is the only one that accepts it.
C9_AtMostOneArm ==
    Len(src) > 0 =>
        /\ Cardinality(Matching(Invocation(LastInv))) <= 1
        /\ matched # 0 => Matching(Invocation(LastInv)) = {matched}

C9_Witness ==
    /\ Len(src) = 1
    /\ src[1].op = "+"
    /\ src[1].amp
    /\ Matching(Invocation(src[1])) = {1}

\* the operator forms in the order of their arms
ArmTokens == <<"+", "-", "*", "/", "%", "&", "|", "^", "<<", ">>", "[]">>

\* the accepted input forms: a supported operator in a well-formed
\* invocation, the indexing form with its `&`
AcceptedForm(inv) ==
    /\ inv.shape = "ok"
    /\ inv.op \in Supported
    /\ inv.op = "[]" => inv.amp

\* the rule set has n arms, one per operator form, and only those forms are accepted
ArmCountIs(n) ==
    Len(src) > 0 =>
        /\ status = "error" => tried = n
        /\ status = "ok" => /\ matched \in 1..n
                            /\ tried = matched
                            /\ LastInv.op = ArmTokens[matched]
        /\ (status = "ok") = AcceptedForm(LastInv)

\* C10 as stated: the rule set consists of exactly twelve arms, one per
\* supported operator token, and these are the only accepted input forms.
C10_TwelveArms == ArmCountIs(12)

\* C10 amended: the rule set consists of exactly eleven arms, one per
\* supported operator form, and these eleven are the only accepted input forms.
C10_ElevenArms == ArmCountIs(11)

C10_Witness ==
    /\ Len(src) = 1
    /\ src[1].op = "^"
    /\ src[1].shape = "noBody"
    /\ status = "error"
    /\ tried = Len(ArmTokens)

====
